---- MODULE Spec2Model ----
(***************************************************************************)
(* Model of libdomain's session layer (src/src/domain.c): session          *)
(* initialisation, tick handlers on the event loop, the five entry         *)
(* operations and teardown.  The connection state machine, the protocol    *)
(* operations and the check_handle / check_string macros live in files of  *)
(* the repository that are not part of src/ (connection.c,                 *)
(* connection_state_machine.c, entry.c, common.h); they are modelled from  *)
(* the specification: connection_configure, csm_next_state, Outcomes,      *)
(* check_handle, check_string, ProtoRc and SrvAnswers.                     *)
(***************************************************************************)
EXTENDS Integers, Sequences, FiniteSets, TLC

VARIABLES
    handle,             \* the caller's LDHandle*: unset | null | uninit | live | freed
    crashed,            \* the process died on a null / wild dereference
    config,             \* the caller's ld_config_t passed to ld_init (or NoConfig)
    global_config,      \* handle->global_config: the session's copy of the settings
    config_ctx,         \* handle->config_ctx
    ldap_params,        \* handle->connection_ctx->ldap_params
    back_link,          \* handle->connection_ctx->handle is set
    state,              \* handle->connection_ctx->state_machine->state
    inProgress,         \* consecutive ticks the pending TLS / bind request was still in progress
    timers,             \* events registered on handle->connection_ctx->base
    removed,            \* ids of events removed with verto_del
    nextTimer,          \* id of the next event verto_add_timeout creates
    blockedInRun,       \* the thread is inside verto_run (ld_exec)
    on_error_operation, \* handle->connection_ctx->on_error_operation
    liveArenas,         \* per-call talloc contexts currently allocated
    released,           \* what ld_free released, in order
    lastOp,             \* the last call of the public API (or callback) and what it did
    srvTls,             \* the server's answer to StartTLS: accept | refuse | any (either)
    srvBind             \* the server's answer to the bind: accept | refuse | any (either)

vars == <<handle, crashed, config, global_config, config_ctx, ldap_params,
          back_link, state, inProgress, timers, removed, nextTimer, blockedInRun,
          on_error_operation, liveArenas, released, lastOp, srvTls, srvBind>>

----------------------------------------------------------------------------
(* Bounds of the model *)

\* events that may be registered over a session's life
MaxTimers == 2
\* ticks a TLS or bind request may stay in progress before the server answers
MaxInProgress == 1

----------------------------------------------------------------------------
(* Strings and pointers.  A char* is a record: the memory it points into   *)
(* and the text there; NULL has mem = "null".                              *)

NULL == [mem |-> "null", s |-> ""]
Ptr(m, str) == [mem |-> m, s |-> str]
IsNull(p) == p.mem = "null"

\* printf's %s: a NULL argument is undefined behaviour; where it does not
\* crash, the C library prints "(null)".
Fmt(p) == IF IsNull(p) THEN "(null)" ELSE p.s

talloc_strdup(p) == IF IsNull(p) THEN NULL ELSE Ptr("arena", p.s)

Bool == {FALSE, TRUE}

NoConfig == [present |-> FALSE]

\* every settings record over the model's strings
AllConfigs ==
    [present : {TRUE},
     host : {Ptr("caller", "dc1")},
     base_dn : {Ptr("caller", "dc=x")},
     username : {NULL, Ptr("caller", "admin")},
     password : {NULL, Ptr("caller", "pw")},
     simple_bind : Bool, use_tls : Bool, use_sasl : Bool, use_anon : Bool,
     cacertfile : {Ptr("caller", "")},
     certfile : {Ptr("caller", "")},
     keyfile : {Ptr("caller", "")}]

\* the settings records the session behaviours are explored with: with or
\* without TLS, and either a simple bind with credentials or an anonymous
\* SASL session without
Configs ==
    {c \in AllConfigs : /\ IsNull(c.username) = IsNull(c.password)
                        /\ c.simple_bind = ~IsNull(c.username)
                        /\ c.use_anon = IsNull(c.username)
                        /\ c.use_sasl = IsNull(c.username)}

States == {"NONE", "INIT", "TLS_START", "BIND", "RUN", "ERROR"}

\* what a call did: its name, whether the session argument was NULL, its
\* result (rc), the calls it made to csm_next_state (nsCalls), to the event
\* loop (loopCalls) and to the protocol library (proto), the per-call arenas
\* it allocated and released, the error callbacks it made, the event it ran
\* for, whether one of its required string arguments was NULL, the result
\* the protocol call handed back (protoRc), the protocol operations it
\* started that had not completed when it returned (pending), and the
\* callback argument it was given (cb), the other arguments it was given
\* where a property is about them (in), and the objects it allocated in the
\* caller's talloc context and did not release (scope)
Op(name, nullSession, rc) ==
    [op |-> name, nullSession |-> nullSession, rc |-> rc, nsCalls |-> 0, loopCalls |-> 0,
     proto |-> <<>>, arenaAllocs |-> 0, arenaFrees |-> 0, errCb |-> 0, timer |-> 0,
     nullString |-> FALSE, protoRc |-> "none", pending |-> 0, cb |-> "none", in |-> <<>>,
     scope |-> <<>>]

EntryOps == {"ld_add_entry", "ld_del_entry", "ld_mod_entry", "ld_rename_entry",
             "ld_mod_entry_attrs"}

----------------------------------------------------------------------------
\* before ld_init: no session, nothing registered
NoSession ==
    /\ handle = "unset"
    /\ crashed = FALSE
    /\ config = NoConfig
    /\ global_config = NoConfig
    /\ config_ctx = NoConfig
    /\ ldap_params = NoConfig
    /\ back_link = FALSE
    /\ state = "NONE"
    /\ inProgress = 0
    /\ timers = {}
    /\ removed = {}
    /\ nextTimer = 1
    /\ blockedInRun = FALSE
    /\ on_error_operation = "none"
    /\ liveArenas = 0
    /\ released = <<>>
    /\ lastOp = Op("none", FALSE, "void")

Init ==
    /\ NoSession
    /\ srvTls = "any"
    /\ srvBind = "any"

----------------------------------------------------------------------------
(* The settings constructors *)

\* what a libconfig lookup of an integer or boolean key finds
Absent == [set |-> FALSE]
Val(v) == [set |-> TRUE, v |-> v]

\* "int x = dflt; config_lookup_int(&cfg, name, &x)": the default stays when
\* the key is absent
Lookup(setting, dflt) == IF setting.set THEN setting.v ELSE dflt

LDAP_VERSION3 == 3

Digit(d) ==
    CASE d = 0 -> "0" [] d = 1 -> "1" [] d = 2 -> "2" [] d = 3 -> "3" [] d = 4 -> "4"
      [] d = 5 -> "5" [] d = 6 -> "6" [] d = 7 -> "7" [] d = 8 -> "8" [] d = 9 -> "9"

\* printf's %d
RECURSIVE FormatInt(_)
FormatInt(n) ==
    IF n < 0 THEN "-" \o FormatInt(0 - n)
    ELSE IF n < 10 THEN Digit(n)
    ELSE FormatInt(n \div 10) \o Digit(n % 10)

\* talloc_strndup(ctx, p, strlen(p)) on the caller's context
talloc_strndup(p) == Ptr("caller", p.s)

\* "p ? talloc_strndup(ctx, p, strlen(p)) : NULL"
CopyOrNull(p) == IF IsNull(p) THEN NULL ELSE talloc_strndup(p)

\* "p ? talloc_strndup(ctx, p, strlen(p)) : talloc_strndup(ctx, "", 0)"
CopyOrEmpty(p) == IF IsNull(p) THEN Ptr("caller", "") ELSE talloc_strndup(p)

\* the host field ld_load_config builds
LoadHost(host, port) ==
    IF port > 0
    THEN Ptr("caller", Fmt(host) \o ":" \o FormatInt(port))
    ELSE talloc_strndup(host)

\* mutant of CreateHost: the port is appended unless it is negative
CreateHost_zero_port(host, port) ==
    IF port >= 0
    THEN Ptr("caller", Fmt(host) \o ":" \o FormatInt(port))
    ELSE Ptr("caller", Fmt(host))

\* the host field ld_create_config builds
CreateHost(host, port) ==
    IF port > 0
    THEN Ptr("caller", Fmt(host) \o ":" \o FormatInt(port))
    ELSE Ptr("caller", Fmt(host))

\* ld_load_config(ctx, filename): the record it returns, NoConfig for NULL.
\* file holds whether config_read_file accepts the file and what every
\* lookup finds in it (a string key that is absent is NULL).
ld_load_config(allocOk, file) ==
    IF ~allocOk THEN NoConfig
    ELSE IF ~file.readable THEN NoConfig
    ELSE IF IsNull(file.host) THEN NoConfig
    ELSE IF IsNull(file.base_dn) THEN NoConfig
    ELSE [present |-> TRUE,
          host |-> LoadHost(file.host, Lookup(file.port, 0)),
          protocol_version |-> Lookup(file.protocol_version, LDAP_VERSION3),
          base_dn |-> CopyOrEmpty(file.base_dn),
          username |-> CopyOrNull(file.username),
          password |-> CopyOrNull(file.password),
          simple_bind |-> Lookup(file.simple_bind, FALSE),
          use_tls |-> Lookup(file.use_tls, FALSE),
          use_sasl |-> Lookup(file.use_sasl, FALSE),
          use_anon |-> Lookup(file.use_anon, FALSE),
          timeout |-> Lookup(file.timeout, 0),
          cacertfile |-> CopyOrEmpty(file.ca_cert_file),
          certfile |-> CopyOrEmpty(file.cert_file),
          keyfile |-> CopyOrEmpty(file.key_file)]

\* what ld_load_config has allocated in ctx, and not released, when it
\* returns: the record is allocated first, the host string after the host
\* lookup, the other strings after the base_dn lookup
ld_load_config_allocations(allocOk, file) ==
    IF ~allocOk THEN <<>>
    ELSE IF ~file.readable THEN <<"ld_config_t">>
    ELSE IF IsNull(file.host) THEN <<"ld_config_t">>
    ELSE IF IsNull(file.base_dn) THEN <<"ld_config_t", "host">>
    ELSE <<"ld_config_t", "host", "base_dn">>
         \o (IF IsNull(file.username) THEN <<>> ELSE <<"username">>)
         \o (IF IsNull(file.password) THEN <<>> ELSE <<"password">>)
         \o <<"cacertfile", "certfile", "keyfile">>

\* the call died instead of returning
ConfigCrash == [present |-> FALSE, crash |-> TRUE]

\* ld_create_config(talloc_ctx, host, port, ...): the record it returns;
\* strlen(base_dn) reads through a NULL base_dn
ld_create_config(allocOk, a) ==
    IF a.talloc_ctx = "null" THEN NoConfig
    ELSE IF ~allocOk THEN NoConfig
    ELSE IF IsNull(a.base_dn) THEN ConfigCrash
    ELSE [present |-> TRUE,
          host |-> CreateHost(a.host, a.port),
          protocol_version |-> a.protocol_version,
          base_dn |-> talloc_strndup(a.base_dn),
          username |-> CopyOrNull(a.username),
          password |-> CopyOrNull(a.password),
          simple_bind |-> a.simple_bind,
          use_tls |-> a.use_tls,
          use_sasl |-> a.use_sasl,
          use_anon |-> a.use_anon,
          timeout |-> a.timeout,
          cacertfile |-> CopyOrEmpty(a.cacertfile),
          certfile |-> CopyOrEmpty(a.certfile),
          keyfile |-> CopyOrEmpty(a.keyfile)]

\* The fields the constructors are given.  One family varies host, port and
\* base_dn with every optional key absent; the other fixes them and varies
\* the credentials, the four flags and the certificate paths.
Ports == {-1, 0, 7, 636}

FileStr(str) == Ptr("file", str)

Files ==
    [readable : {TRUE}, host : {NULL, FileStr(""), FileStr("dc1")},
     port : {Absent} \cup {Val(n) : n \in Ports}, protocol_version : {Absent},
     base_dn : {NULL, FileStr(""), FileStr("dc=x")},
     username : {NULL}, password : {NULL},
     simple_bind : {Absent}, use_tls : {Absent}, use_sasl : {Absent}, use_anon : {Absent},
     timeout : {Absent}, ca_cert_file : {NULL}, cert_file : {NULL}, key_file : {NULL}]
    \cup
    {[readable |-> r, host |-> FileStr("dc1"), port |-> Absent,
      protocol_version |-> Val(LDAP_VERSION3), base_dn |-> FileStr("dc=x"),
      username |-> c[1], password |-> c[2],
      simple_bind |-> f[1], use_tls |-> f[2], use_sasl |-> f[3], use_anon |-> f[4],
      timeout |-> Absent, ca_cert_file |-> p, cert_file |-> p, key_file |-> p] :
        r \in Bool, c \in {<<NULL, NULL>>, <<FileStr("admin"), FileStr("pw")>>},
        f \in {Absent, Val(TRUE)} \X {Absent, Val(TRUE)} \X {Absent, Val(TRUE)}
              \X {Absent, Val(TRUE)},
        p \in {NULL, FileStr("/c.pem")}}

CreateArgs ==
    [talloc_ctx : {"scope"}, host : {Ptr("caller", ""), Ptr("caller", "dc1")}, port : Ports,
     protocol_version : {LDAP_VERSION3}, base_dn : {NULL, Ptr("caller", "dc=x")},
     username : {NULL}, password : {NULL},
     simple_bind : {FALSE}, use_tls : {FALSE}, use_sasl : {FALSE}, use_anon : {FALSE},
     timeout : {0}, cacertfile : {NULL}, certfile : {NULL}, keyfile : {NULL}]
    \cup
    {[talloc_ctx |-> t, host |-> Ptr("caller", "dc1"), port |-> 0,
      protocol_version |-> LDAP_VERSION3, base_dn |-> Ptr("caller", "dc=x"),
      username |-> c[1], password |-> c[2],
      simple_bind |-> f[1], use_tls |-> f[2], use_sasl |-> f[3], use_anon |-> f[4],
      timeout |-> 0, cacertfile |-> p, certfile |-> p, keyfile |-> p] :
        t \in {"null", "scope"},
        c \in {<<NULL, NULL>>, <<Ptr("caller", "admin"), Ptr("caller", "pw")>>},
        f \in Bool \X Bool \X Bool \X Bool,
        p \in {NULL, Ptr("caller", "/c.pem")}}

\* variables a constructor leaves alone: it knows of no session
constructorFrame == <<handle, global_config, config_ctx, ldap_params, back_link, state,
                      inProgress, timers, removed, nextTimer, blockedInRun,
                      on_error_operation, liveArenas, released, srvTls, srvBind>>

\* the application builds its settings record before it creates the session
LdLoadConfig ==
    \E allocOk \in Bool, file \in Files :
        /\ handle = "unset"
        /\ ~crashed
        /\ config' = ld_load_config(allocOk, file)
        /\ lastOp' = [Op("ld_load_config", FALSE, "void") EXCEPT
                         !.in = file, !.scope = ld_load_config_allocations(allocOk, file)]
        /\ UNCHANGED crashed
        /\ UNCHANGED constructorFrame

LdCreateConfig ==
    \E allocOk \in Bool, a \in CreateArgs :
        LET result == ld_create_config(allocOk, a) IN
        /\ handle = "unset"
        /\ ~crashed
        /\ crashed' = (result = ConfigCrash)
        /\ config' = IF result = ConfigCrash THEN config ELSE result
        /\ lastOp' = [Op("ld_create_config", FALSE,
                         IF result = ConfigCrash THEN "crash" ELSE "void") EXCEPT !.in = a]
        /\ UNCHANGED constructorFrame

----------------------------------------------------------------------------
(* ld_init *)

\* mutant of talloc_memdup: the copy loses the use_anon flag
talloc_memdup_without_anon(cfg) == [cfg EXCEPT !.use_anon = FALSE]

\* talloc_memdup(ctx, config, sizeof (ld_config_t)): the bytes of the record
\* are copied, so every char* field of the copy is the caller's pointer.
talloc_memdup(cfg) == cfg

\* LDAP_SASL_SIMPLE of <ldap.h> is ((char*)0)
LDAP_SASL_SIMPLE == NULL

\* mutant of SaslOptions: the mechanism is GSSAPI whatever simple_bind says
SaslOptions_gssapi_only(cfg) ==
    [present |-> TRUE,
     mechanism |-> Ptr("static", "GSSAPI"),
     passwd |-> talloc_strdup(cfg.password),
     sasl_nocanon |-> TRUE,
     sasl_secprops |-> Ptr("static", "minssf=56"),
     sasl_flags |-> "LDAP_SASL_QUIET"]

SaslOptions(cfg) ==
    [present |-> TRUE,
     mechanism |-> IF cfg.simple_bind THEN LDAP_SASL_SIMPLE ELSE Ptr("static", "GSSAPI"),
     passwd |-> talloc_strdup(cfg.password),
     sasl_nocanon |-> TRUE,
     sasl_secprops |-> Ptr("static", "minssf=56"),
     sasl_flags |-> "LDAP_SASL_QUIET"]

\* mutants of DeriveConfigCtx: use_start_tls taken from the wrong flag, or
\* never set
DeriveConfigCtx_sasl_flag(cfg) ==
    [present |-> TRUE, server |-> cfg.host, use_sasl |-> cfg.use_sasl,
     use_start_tls |-> cfg.use_sasl, chase_referrals |-> FALSE,
     bind_type |-> IF cfg.simple_bind THEN "BIND_TYPE_SIMPLE" ELSE "BIND_TYPE_INTERACTIVE",
     sasl_options |-> IF cfg.use_sasl THEN SaslOptions(cfg) ELSE [present |-> FALSE],
     tls_ca_cert_file |-> IF cfg.use_tls THEN talloc_strdup(cfg.cacertfile) ELSE NULL,
     tls_cert_file |-> IF cfg.use_tls THEN talloc_strdup(cfg.certfile) ELSE NULL,
     tls_key_file |-> IF cfg.use_tls THEN talloc_strdup(cfg.keyfile) ELSE NULL]

DeriveConfigCtx_no_tls(cfg) ==
    [DeriveConfigCtx_sasl_flag(cfg) EXCEPT !.use_start_tls = FALSE]

\* the configuration context ld_init derives from the settings
DeriveConfigCtx(cfg) ==
    [present |-> TRUE,
     server |-> cfg.host,
     use_sasl |-> cfg.use_sasl,
     use_start_tls |-> cfg.use_tls,
     chase_referrals |-> FALSE,
     bind_type |-> IF cfg.simple_bind THEN "BIND_TYPE_SIMPLE" ELSE "BIND_TYPE_INTERACTIVE",
     sasl_options |-> IF cfg.use_sasl THEN SaslOptions(cfg) ELSE [present |-> FALSE],
     tls_ca_cert_file |-> IF cfg.use_tls THEN talloc_strdup(cfg.cacertfile) ELSE NULL,
     tls_cert_file |-> IF cfg.use_tls THEN talloc_strdup(cfg.certfile) ELSE NULL,
     tls_key_file |-> IF cfg.use_tls THEN talloc_strdup(cfg.keyfile) ELSE NULL]

\* the bind parameters: dn "cn=<username>,<base_dn>" and the password as a berval
BuildLdapParams(cfg) ==
    [present |-> TRUE,
     dn |-> Ptr("arena", "cn=" \o Fmt(cfg.username) \o "," \o Fmt(cfg.base_dn)),
     bv_len |-> IF IsNull(cfg.password) THEN 0 ELSE Len(cfg.password.s),
     bv_val |-> IF IsNull(cfg.password) THEN NULL ELSE talloc_strdup(cfg.password)]

\* connection_configure: primes the state machine at INIT; on failure the
\* connection is left in ERROR
connection_configure(rc) == IF rc = "SUCCESS" THEN "INIT" ELSE "ERROR"

\* mutant of HandleAfterConfigure: the handle is dropped when configuring fails
HandleAfterConfigure_dropped(rc) == IF rc = "SUCCESS" THEN "live" ELSE "null"

\* the session handle ld_init leaves in *handle after connection_configure
\* returned rc: the early return on failure keeps it
HandleAfterConfigure(rc) == "live"

\* ld_init(handle, config).  out: the session_out pointer; mallocOk: malloc's
\* answer; ub: what printf's %s does with a NULL username; rc: what
\* connection_configure returns.
ld_init(out, cfg, mallocOk, ub, rc) ==
    /\ handle = "unset"
    /\ ~crashed
    /\ IF out = "null"
       THEN \* *handle = malloc(...) writes through a NULL pointer
            /\ crashed' = TRUE
            /\ lastOp' = Op("ld_init", TRUE, "crash")
            /\ UNCHANGED <<handle, config, global_config, config_ctx, ldap_params,
                           back_link, state>>
       ELSE IF ~mallocOk
       THEN /\ handle' = "null"
            /\ lastOp' = Op("ld_init", FALSE, "void")
            /\ UNCHANGED <<crashed, config, global_config, config_ctx, ldap_params,
                           back_link, state>>
       ELSE IF ~cfg.present
       THEN \* the handle is allocated and returned with none of its fields set
            /\ handle' = "uninit"
            /\ lastOp' = Op("ld_init", FALSE, "void")
            /\ UNCHANGED <<crashed, config, global_config, config_ctx, ldap_params,
                           back_link, state>>
       ELSE IF IsNull(cfg.username) /\ ub = "crash"
       THEN /\ crashed' = TRUE
            /\ handle' = "uninit"
            /\ config' = cfg
            /\ lastOp' = Op("ld_init", FALSE, "crash")
            /\ UNCHANGED <<global_config, config_ctx, ldap_params, back_link, state>>
       ELSE /\ handle' = HandleAfterConfigure(rc)
            /\ config' = cfg
            /\ global_config' = talloc_memdup(cfg)
            /\ config_ctx' = DeriveConfigCtx(cfg)
            /\ ldap_params' = BuildLdapParams(cfg)
            /\ state' = connection_configure(rc)
            /\ back_link' = (rc = "SUCCESS")
            /\ lastOp' = [Op("ld_init", FALSE, "void") EXCEPT
                             !.proto = <<[fn |-> "connection_configure", rc |-> rc]>>]
            /\ UNCHANGED crashed
    /\ UNCHANGED <<inProgress, timers, removed, nextTimer, blockedInRun,
                   on_error_operation, liveArenas, released, srvTls, srvBind>>

LdInit ==
    \E out \in {"null", "valid"}, cfg \in Configs \cup {NoConfig}, mallocOk \in Bool,
       ub \in {"crash", "printed"}, rc \in {"SUCCESS", "FAILURE"} :
        ld_init(out, cfg, mallocOk, ub, rc)

\* every char* the session holds after ld_init
SessionStrings ==
    IF handle # "live" THEN {}
    ELSE {global_config.host, global_config.base_dn, global_config.username,
          global_config.password, global_config.cacertfile, global_config.certfile,
          global_config.keyfile,
          config_ctx.server, config_ctx.tls_ca_cert_file, config_ctx.tls_cert_file,
          config_ctx.tls_key_file, ldap_params.dn, ldap_params.bv_val}
         \cup (IF config_ctx.sasl_options.present
               THEN {config_ctx.sasl_options.mechanism, config_ctx.sasl_options.passwd,
                     config_ctx.sasl_options.sasl_secprops}
               ELSE {})

----------------------------------------------------------------------------
(* Calls on a session.  h is the argument the caller passes: NULL, or the  *)
(* pointer ld_init stored (itself NULL when malloc failed).                *)

HandleArgs == {"NULL", "session"}

HandlePtr(h) == IF h = "NULL" THEN "null" ELSE handle

Callable(h) ==
    /\ ~crashed
    /\ ~blockedInRun
    /\ h = "session" => handle \in {"null", "uninit", "live"}

\* variables no call on a NULL session touches
sessionVars == <<handle, crashed, config, global_config, config_ctx, ldap_params,
                 back_link, state, inProgress, timers, removed, nextTimer, blockedInRun,
                 on_error_operation, liveArenas, released, srvTls, srvBind>>

\* a void function's "if (!handle) { ld_error(...); return; }"
NullHandleReturn(name) ==
    /\ lastOp' = Op(name, TRUE, "void")
    /\ UNCHANGED sessionVars

\* a dereference of handle->connection_ctx in a handle ld_init returned
\* without setting its fields: the process dies, or the wild pointer happens
\* to be harmless and the call returns having done nothing
WildHandleUB(name, ub) ==
    /\ crashed' = (ub = "crash")
    /\ lastOp' = Op(name, FALSE, IF ub = "crash" THEN "crash" ELSE "void")
    /\ UNCHANGED <<handle, config, global_config, config_ctx, ldap_params,
                   back_link, state, inProgress, timers, removed, nextTimer, blockedInRun,
                   on_error_operation, liveArenas, released, srvTls, srvBind>>

UBOutcomes == {"crash", "benign"}

WildHandle(name) == \E ub \in UBOutcomes : WildHandleUB(name, ub)

----------------------------------------------------------------------------
(* Tick handlers *)

CONNECTION_UPDATE_INTERVAL == 1000

\* mutant of AddTimeout: registering the event also runs the state machine
AddTimeout_advances(name, cb, interval) ==
    /\ nextTimer <= MaxTimers
    /\ timers' = timers \cup {[id |-> nextTimer, cb |-> cb, interval |-> interval]}
    /\ nextTimer' = nextTimer + 1
    /\ state' = IF state = "INIT" THEN "BIND" ELSE state
    /\ lastOp' = [Op(name, FALSE, "void") EXCEPT !.loopCalls = 2, !.timer = nextTimer]
    /\ UNCHANGED <<handle, crashed, config, global_config, config_ctx,
                   ldap_params, back_link, inProgress, removed, blockedInRun,
                   on_error_operation, liveArenas, released, srvTls, srvBind>>

\* verto_add_timeout(base, VERTO_EV_FLAG_PERSIST, callback, interval) followed
\* by verto_set_private(ev, handle->connection_ctx, NULL)
AddTimeout(name, cb, interval) ==
    /\ nextTimer <= MaxTimers
    /\ timers' = timers \cup {[id |-> nextTimer, cb |-> cb, interval |-> interval]}
    /\ nextTimer' = nextTimer + 1
    /\ lastOp' = [Op(name, FALSE, "void") EXCEPT !.loopCalls = 2, !.timer = nextTimer]
    /\ UNCHANGED <<handle, crashed, config, global_config, config_ctx,
                   ldap_params, back_link, state, inProgress, removed, blockedInRun,
                   on_error_operation, liveArenas, released, srvTls, srvBind>>

ld_install_default_handlers(h) ==
    /\ Callable(h)
    /\ CASE HandlePtr(h) = "null" -> NullHandleReturn("ld_install_default_handlers")
         [] HandlePtr(h) = "uninit" -> WildHandle("ld_install_default_handlers")
         [] OTHER -> AddTimeout("ld_install_default_handlers", "connection_update",
                                CONNECTION_UPDATE_INTERVAL)

ld_install_handler(h, interval) ==
    /\ Callable(h)
    /\ CASE HandlePtr(h) = "null" -> NullHandleReturn("ld_install_handler")
         [] HandlePtr(h) = "uninit" -> WildHandle("ld_install_handler")
         [] OTHER -> AddTimeout("ld_install_handler", "custom", interval)

LdInstallDefaultHandlers ==
    \E h \in HandleArgs : ld_install_default_handlers(h)

LdInstallHandler ==
    \E h \in HandleArgs : ld_install_handler(h, 500)

----------------------------------------------------------------------------
(* The connection state machine *)

\* csm_next_state: at most one transition.  outcome is what the protocol
\* library reports for the request of the current state.
csm_next_state(st, use_start_tls, outcome) ==
    CASE st = "INIT" -> IF use_start_tls THEN "TLS_START" ELSE "BIND"
      [] st = "TLS_START" -> IF outcome = "done" THEN "BIND"
                             ELSE IF outcome = "failed" THEN "ERROR" ELSE "TLS_START"
      [] st = "BIND" -> IF outcome = "done" THEN "RUN"
                        ELSE IF outcome = "failed" THEN "ERROR" ELSE "BIND"
      [] OTHER -> st

\* the bind next_state selects in BIND from the session's settings
BindModes == {"anonymous", "simple", "sasl_simple", "sasl_gssapi", "interactive"}

BindMode(gc) ==
    IF gc.use_anon /\ ~gc.use_sasl THEN "anonymous"
    ELSE IF gc.simple_bind /\ ~gc.use_sasl THEN "simple"
    ELSE IF gc.use_sasl /\ gc.simple_bind THEN "sasl_simple"
    ELSE IF gc.use_sasl THEN "sasl_gssapi"
    ELSE "interactive"

\* the bind request of a tick: its mode, and the DN, secret and mechanism it
\* carries, taken from the contexts ld_init built
Bind(gc, cc, params) ==
    LET mode == BindMode(gc) IN
    [fn |-> "bind", mode |-> mode,
     dn |-> IF mode = "simple" THEN params.dn.s ELSE "",
     secret |-> CASE mode = "simple" -> params.bv_val
                  [] mode = "sasl_simple" -> cc.sasl_options.passwd
                  [] OTHER -> NULL,
     mechanism |-> IF mode \in {"sasl_simple", "sasl_gssapi"} THEN cc.sasl_options.mechanism
                   ELSE NULL]

\* the requests a call of next_state makes to the protocol library
Requests(st) == IF st = "BIND" THEN <<Bind(global_config, config_ctx, ldap_params)>> ELSE <<>>

\* what the protocol library can report on this tick, given the server
Outcomes(st) ==
    IF st \in {"TLS_START", "BIND"}
    THEN (IF inProgress < MaxInProgress THEN {"in_progress"} ELSE {})
         \cup (LET srv == IF st = "TLS_START" THEN srvTls ELSE srvBind IN
               (IF srv \in {"accept", "any"} THEN {"done"} ELSE {})
               \cup (IF srv \in {"refuse", "any"} THEN {"failed"} ELSE {}))
    ELSE {"done"}

\* mutant of RemoveAfterTick: the event is deleted in RUN only
RemoveAfterTick_run_only(st) == st = "RUN"

\* connection_update's test after csm_next_state: the event is deleted
RemoveAfterTick(st) == st = "RUN" \/ st = "ERROR"

\* one tick callback fired by the event loop for event t; via names the
\* loop entry point (ld_exec_once or ld_exec).  A caller-supplied callback
\* (ld_install_handler) either drives the state machine (advance) or not,
\* and never deletes its event.
connection_update(t, outcome, via) ==
    LET st == csm_next_state(state, config_ctx.use_start_tls, outcome) IN
    /\ state' = st
    /\ inProgress' = IF st = state /\ st \in {"TLS_START", "BIND"} THEN inProgress + 1 ELSE 0
    /\ timers' = IF RemoveAfterTick(st) THEN timers \ {t} ELSE timers
    /\ removed' = IF RemoveAfterTick(st) THEN removed \cup {t.id} ELSE removed
    /\ lastOp' = [Op("connection_update", FALSE, "void") EXCEPT
                     !.nsCalls = 1, !.loopCalls = IF RemoveAfterTick(st) THEN 2 ELSE 1,
                     !.timer = t.id, !.proto = <<[fn |-> via]>> \o Requests(state)]

custom_callback(t, outcome, advance, via) ==
    LET st == IF advance THEN csm_next_state(state, config_ctx.use_start_tls, outcome)
              ELSE state IN
    /\ state' = st
    /\ inProgress' = IF advance
                     THEN (IF st = state /\ st \in {"TLS_START", "BIND"}
                           THEN inProgress + 1 ELSE 0)
                     ELSE inProgress
    /\ UNCHANGED <<timers, removed>>
    /\ lastOp' = [Op("custom_callback", FALSE, "void") EXCEPT
                     !.nsCalls = IF advance THEN 1 ELSE 0, !.loopCalls = 1,
                     !.timer = t.id,
                     !.proto = <<[fn |-> via]>> \o (IF advance THEN Requests(state) ELSE <<>>)]

\* the event loop fires one registered event
Fire(via) ==
    \E t \in timers, outcome \in Outcomes(state) :
        /\ IF t.cb = "connection_update"
           THEN connection_update(t, outcome, via)
           ELSE \E advance \in Bool : custom_callback(t, outcome, advance, via)
        /\ UNCHANGED <<handle, crashed, config, global_config, config_ctx,
                       ldap_params, back_link, nextTimer, blockedInRun, on_error_operation,
                       liveArenas, released, srvTls, srvBind>>

\* ld_exec_once: verto_run_once pumps one round of the loop
ld_exec_once(h) ==
    /\ Callable(h)
    /\ CASE HandlePtr(h) = "null" -> NullHandleReturn("ld_exec_once")
         [] HandlePtr(h) = "uninit" -> WildHandle("ld_exec_once")
         [] OTHER ->
              IF timers = {}
              THEN /\ lastOp' = [Op("ld_exec_once", FALSE, "void") EXCEPT !.loopCalls = 1]
                   /\ UNCHANGED sessionVars
              ELSE Fire("ld_exec_once")

\* ld_exec: verto_run keeps the thread in the loop
ld_exec(h) ==
    /\ Callable(h)
    /\ CASE HandlePtr(h) = "null" -> NullHandleReturn("ld_exec")
         [] HandlePtr(h) = "uninit" -> WildHandle("ld_exec")
         [] OTHER ->
              /\ blockedInRun' = TRUE
              /\ lastOp' = [Op("ld_exec", FALSE, "void") EXCEPT !.loopCalls = 1]
              /\ UNCHANGED <<handle, crashed, config, global_config, config_ctx,
                             ldap_params, back_link, state, inProgress, timers, removed,
                             nextTimer, on_error_operation, liveArenas, released, srvTls,
                             srvBind>>

LdExecOnce == \E h \in HandleArgs : ld_exec_once(h)

LdExec == \E h \in HandleArgs : ld_exec(h)

\* a round of the loop while the thread is inside verto_run
RunLoop ==
    /\ blockedInRun
    /\ ~crashed
    /\ Fire("ld_exec")

----------------------------------------------------------------------------
(* The error callback *)

Callbacks == {"null", "cb1"}

\* mutant of ld_install_error_handler: the callback is not stored
ld_install_error_handler_unstored(h, callback) ==
    /\ Callable(h)
    /\ CASE HandlePtr(h) = "null" -> NullHandleReturn("ld_install_error_handler")
         [] HandlePtr(h) = "uninit" /\ callback # "null" ->
              WildHandle("ld_install_error_handler")
         [] OTHER ->
              /\ lastOp' = [Op("ld_install_error_handler", FALSE, "void") EXCEPT
                               !.cb = callback]
              /\ UNCHANGED <<handle, crashed, config, global_config, config_ctx,
                             ldap_params, back_link, state, inProgress, timers, removed,
                             nextTimer, blockedInRun, on_error_operation, liveArenas,
                             released, srvTls, srvBind>>

\* mutant of ld_install_error_handler: a NULL callback clears the stored one
ld_install_error_handler_clears(h, callback) ==
    /\ Callable(h)
    /\ CASE HandlePtr(h) = "null" -> NullHandleReturn("ld_install_error_handler")
         [] HandlePtr(h) = "uninit" /\ callback # "null" ->
              WildHandle("ld_install_error_handler")
         [] OTHER ->
              /\ on_error_operation' = IF callback = "null" THEN "none" ELSE callback
              /\ lastOp' = [Op("ld_install_error_handler", FALSE, "void") EXCEPT
                               !.cb = callback]
              /\ UNCHANGED <<handle, crashed, config, global_config, config_ctx,
                             ldap_params, back_link, state, inProgress, timers, removed,
                             nextTimer, blockedInRun, liveArenas, released, srvTls, srvBind>>

ld_install_error_handler(h, callback) ==
    /\ Callable(h)
    /\ CASE HandlePtr(h) = "null" -> NullHandleReturn("ld_install_error_handler")
         [] HandlePtr(h) = "uninit" /\ callback # "null" ->
              WildHandle("ld_install_error_handler")
         [] OTHER ->
              /\ on_error_operation' = IF callback = "null" THEN on_error_operation
                                       ELSE callback
              /\ lastOp' = [Op("ld_install_error_handler", FALSE, "void") EXCEPT
                               !.cb = callback]
              /\ UNCHANGED <<handle, crashed, config, global_config, config_ctx,
                             ldap_params, back_link, state, inProgress, timers, removed,
                             nextTimer, blockedInRun, liveArenas, released, srvTls, srvBind>>

LdInstallErrorHandler ==
    \E h \in HandleArgs, callback \in Callbacks : ld_install_error_handler(h, callback)

----------------------------------------------------------------------------
(* Teardown *)

\* mutant of FreeSequence: the arena is released before the connection is closed
FreeSequence_arena_first == <<"talloc_free", "connection_close", "free">>

\* ld_free's three releases, in the order the code makes them
FreeSequence == <<"connection_close", "talloc_free", "free">>

\* ld_free(handle).  connection_close tears down the event base with the
\* connection, so no event stays registered.
ld_free(h) ==
    /\ Callable(h)
    /\ CASE HandlePtr(h) = "null" -> NullHandleReturn("ld_free")
         [] HandlePtr(h) = "uninit" ->
              \* connection_close and talloc_free read fields never set
              \E ub \in UBOutcomes :
                /\ crashed' = (ub = "crash")
                /\ handle' = IF ub = "crash" THEN handle ELSE "freed"
                /\ lastOp' = Op("ld_free", FALSE, IF ub = "crash" THEN "crash" ELSE "void")
                /\ UNCHANGED <<config, global_config, config_ctx, ldap_params,
                               back_link, state, inProgress, timers, removed, nextTimer,
                               blockedInRun, on_error_operation, liveArenas, released,
                               srvTls, srvBind>>
         [] OTHER ->
              /\ released' = released \o FreeSequence
              /\ handle' = "freed"
              /\ state' = "NONE"
              /\ inProgress' = 0
              /\ timers' = {}
              /\ global_config' = NoConfig
              /\ config_ctx' = NoConfig
              /\ ldap_params' = NoConfig
              /\ back_link' = FALSE
              /\ on_error_operation' = "none"
              /\ lastOp' = [Op("ld_free", FALSE, "void") EXCEPT
                               !.proto = <<[fn |-> "connection_close", was |-> state]>>]
              /\ UNCHANGED <<crashed, config, removed, nextTimer, blockedInRun,
                             liveArenas, srvTls, srvBind>>

LdFree == \E h \in HandleArgs : ld_free(h)

----------------------------------------------------------------------------
(* The entry operations *)

\* a NULL-terminated array of LDAPAttribute_t*: each element has a name and a
\* NULL-terminated array of values
NullAttr == [null |-> TRUE]
Attr(name, values) == [null |-> FALSE, name |-> name, values |-> values]
NullAttrs == [null |-> TRUE, arr |-> <<>>]
Attrs(arr) == [null |-> FALSE, arr |-> arr]

\* the index of the first NULL of a NULL-terminated array, less one:
\* "while (a[n] != NULL) n++"
RECURSIVE CountAttrs(_, _)
CountAttrs(arr, n) == IF arr[n + 1].null THEN n ELSE CountAttrs(arr, n + 1)

RECURSIVE CountValues(_, _)
CountValues(arr, n) == IF IsNull(arr[n + 1]) THEN n ELSE CountValues(arr, n + 1)

NullMod == [null |-> TRUE]

\* mutant of fill_attributes: the last value of every attribute is left out
fill_attributes_short(entry_attrs, mod_op) ==
    LET attr_count == CountAttrs(entry_attrs, 0)
        copy(a) ==
            LET val_count == CountValues(a.values, 0) IN
            [null |-> FALSE,
             mod_op |-> mod_op,
             mod_type |-> talloc_strdup(a.name),
             mod_values |-> [j \in 1..(val_count + 1) |->
                                IF j < val_count THEN talloc_strdup(a.values[j]) ELSE NULL]]
    IN [i \in 1..(attr_count + 1) |->
           IF i <= attr_count THEN copy(entry_attrs[i]) ELSE NullMod]

\* fill_attributes(entry_attrs, talloc_ctx, mod_op): the list in the protocol
\* library's shape, every string copied into the per-call arena
fill_attributes(entry_attrs, mod_op) ==
    LET attr_count == CountAttrs(entry_attrs, 0)
        copy(a) ==
            LET val_count == CountValues(a.values, 0) IN
            [null |-> FALSE,
             mod_op |-> mod_op,
             mod_type |-> talloc_strdup(a.name),
             mod_values |-> [j \in 1..(val_count + 1) |->
                                IF j <= val_count THEN talloc_strdup(a.values[j]) ELSE NULL]]
    IN [i \in 1..(attr_count + 1) |->
           IF i <= attr_count THEN copy(entry_attrs[i]) ELSE NullMod]

AnyNull(strs) == \E i \in DOMAIN strs : IsNull(strs[i])

\* check_handle(handle, name): a NULL handle makes the function return FAILURE
check_handle(hp) == hp # "null"

\* check_string(input, output, name): a NULL string makes the function return FAILURE
check_string(p) == ~IsNull(p)

\* the result of add / ld_delete / modify / ld_rename on the connection:
\* FAILURE unless the connection is in RUN, else what the server answers
ProtoRc(srv) == IF state = "RUN" THEN srv ELSE "FAILURE"

\* what the server may answer to a request
SrvAnswers == IF state = "RUN" THEN {"SUCCESS", "FAILURE"} ELSE {"FAILURE"}

\* mutant of ReturnCode: the protocol call's result is dropped
ReturnCode_always_success(rc) == "SUCCESS"

\* the result code an entry operation hands back for the protocol call's rc
ReturnCode(rc) == rc

\* mutant of CallAndRelease: the arena is released on success only
CallAndRelease_leak_on_failure(base, hp, call, ubPtr, srv) ==
    LET rc == IF hp = "uninit" THEN "FAILURE" ELSE ProtoRc(srv) IN
    IF hp = "uninit" /\ ubPtr = "crash"
    THEN [base EXCEPT !.rc = "crash", !.arenaAllocs = 1]
    ELSE [base EXCEPT !.rc = rc, !.arenaAllocs = 1,
                      !.arenaFrees = IF rc = "SUCCESS" THEN 1 ELSE 0, !.proto = <<call>>]

\* mutant of CallAndRelease: the protocol operation is started and the
\* function returns without waiting for it
CallAndRelease_no_wait(base, hp, call, ubPtr, srv) ==
    IF hp = "uninit" /\ ubPtr = "crash"
    THEN [base EXCEPT !.rc = "crash", !.arenaAllocs = 1]
    ELSE [base EXCEPT !.rc = IF hp = "uninit" THEN "FAILURE" ELSE ProtoRc(srv),
                      !.arenaAllocs = 1, !.arenaFrees = 1, !.proto = <<call>>,
                      !.pending = 1]

\* Tail of every entry operation once its per-call arena exists: the
\* protocol call on handle->connection_ctx, talloc_free, return rc.  With a
\* handle whose fields were never set the call works on a wild pointer.
CallAndRelease(base, hp, call, ubPtr, srv) ==
    IF hp = "uninit"
    THEN IF ubPtr = "crash"
         THEN [base EXCEPT !.rc = "crash", !.arenaAllocs = 1]
         ELSE [base EXCEPT !.rc = ReturnCode("FAILURE"), !.arenaAllocs = 1, !.arenaFrees = 1,
                           !.proto = <<call>>]
    ELSE LET rc == ProtoRc(srv) IN
         [base EXCEPT !.rc = ReturnCode(rc), !.arenaAllocs = 1, !.arenaFrees = 1,
                      !.proto = <<call>>, !.protoRc = rc, !.pending = 0,
                      !.errCb = IF rc # "SUCCESS" /\ on_error_operation # "none" THEN 1 ELSE 0]

Crash(base) == [base EXCEPT !.rc = "crash", !.arenaAllocs = 1]

ld_add_entry(hp, name, parent, prefix, entry_attrs, ubFmt, ubPtr, srv) ==
    LET base == [Op("ld_add_entry", hp = "null", "FAILURE") EXCEPT
                    !.nullString = AnyNull(<<name, parent, prefix>>)] IN
    IF ~check_handle(hp) THEN base
    ELSE IF ~check_string(name) THEN base
    ELSE IF ~check_string(parent) THEN base
    ELSE IF IsNull(prefix) /\ ubFmt = "crash" THEN Crash(base)
    ELSE IF entry_attrs.null THEN Crash(base)
    ELSE LET dn == Fmt(prefix) \o "=" \o name.s \o "," \o parent.s
             attrs == fill_attributes(entry_attrs.arr, "LDAP_MOD_ADD")
         IN CallAndRelease(base, hp, [fn |-> "add", dn |-> dn, attrs |-> attrs], ubPtr, srv)

ld_del_entry(hp, name, parent, prefix, ubFmt, ubPtr, srv) ==
    LET base == [Op("ld_del_entry", hp = "null", "FAILURE") EXCEPT
                    !.nullString = AnyNull(<<name, parent, prefix>>)] IN
    IF ~check_handle(hp) THEN base
    ELSE IF ~check_string(name) THEN base
    ELSE IF ~check_string(parent) THEN base
    ELSE IF IsNull(prefix) /\ ubFmt = "crash" THEN Crash(base)
    ELSE LET dn == Fmt(prefix) \o "=" \o name.s \o "," \o parent.s
         IN CallAndRelease(base, hp, [fn |-> "ld_delete", dn |-> dn], ubPtr, srv)

ld_mod_entry(hp, name, parent, prefix, entry_attrs, ubFmt, ubPtr, srv) ==
    LET base == [Op("ld_mod_entry", hp = "null", "FAILURE") EXCEPT
                    !.nullString = AnyNull(<<name, parent, prefix>>)] IN
    IF ~check_handle(hp) THEN base
    ELSE IF ~check_string(name) THEN base
    ELSE IF ~check_string(parent) THEN base
    ELSE IF entry_attrs.null THEN Crash(base)
    ELSE IF IsNull(prefix) /\ ubFmt = "crash" THEN Crash(base)
    ELSE LET attrs == fill_attributes(entry_attrs.arr, "LDAP_MOD_REPLACE")
             dn == Fmt(prefix) \o "=" \o name.s \o "," \o parent.s
         IN CallAndRelease(base, hp, [fn |-> "modify", dn |-> dn, attrs |-> attrs], ubPtr, srv)

\* mutant of ld_rename_entry: the old RDN is kept
ld_rename_entry_keeps_rdn(hp, old_name, new_name, parent, prefix, ubFmt, ubPtr, srv) ==
    LET base == [Op("ld_rename_entry", hp = "null", "FAILURE") EXCEPT
                    !.nullString = AnyNull(<<old_name, new_name, parent, prefix>>)] IN
    IF ~check_handle(hp) THEN base
    ELSE IF ~check_string(old_name) THEN base
    ELSE IF ~check_string(new_name) THEN base
    ELSE IF ~check_string(parent) THEN base
    ELSE IF IsNull(prefix) /\ ubFmt = "crash" THEN Crash(base)
    ELSE LET old_dn == Fmt(prefix) \o "=" \o old_name.s \o "," \o parent.s
             new_dn == Fmt(prefix) \o "=" \o new_name.s
         IN CallAndRelease(base, hp,
                [fn |-> "ld_rename", old_dn |-> old_dn, new_dn |-> new_dn,
                 new_parent |-> parent.s, delete_original |-> FALSE], ubPtr, srv)

ld_rename_entry(hp, old_name, new_name, parent, prefix, ubFmt, ubPtr, srv) ==
    LET base == [Op("ld_rename_entry", hp = "null", "FAILURE") EXCEPT
                    !.nullString = AnyNull(<<old_name, new_name, parent, prefix>>)] IN
    IF ~check_handle(hp) THEN base
    ELSE IF ~check_string(old_name) THEN base
    ELSE IF ~check_string(new_name) THEN base
    ELSE IF ~check_string(parent) THEN base
    ELSE IF IsNull(prefix) /\ ubFmt = "crash" THEN Crash(base)
    ELSE LET old_dn == Fmt(prefix) \o "=" \o old_name.s \o "," \o parent.s
             new_dn == Fmt(prefix) \o "=" \o new_name.s
         IN CallAndRelease(base, hp,
                [fn |-> "ld_rename", old_dn |-> old_dn, new_dn |-> new_dn,
                 new_parent |-> parent.s, delete_original |-> TRUE], ubPtr, srv)

\* mutant of ld_mod_entry_attrs: the DN always has the '=' separator
ld_mod_entry_attrs_always_eq(hp, name, parent, prefix, entry_attrs, opcode, ubPtr, srv) ==
    LET base == [Op("ld_mod_entry_attrs", hp = "null", "FAILURE") EXCEPT
                    !.nullString = AnyNull(<<name, parent, prefix>>)] IN
    IF ~check_handle(hp) THEN base
    ELSE IF ~check_string(name) THEN base
    ELSE IF ~check_string(parent) THEN base
    ELSE IF entry_attrs.null THEN Crash(base)
    ELSE IF IsNull(prefix) THEN Crash(base)
    ELSE LET attrs == fill_attributes(entry_attrs.arr, opcode)
             dn == prefix.s \o "=" \o name.s \o "," \o parent.s
         IN CallAndRelease(base, hp, [fn |-> "modify", dn |-> dn, attrs |-> attrs], ubPtr, srv)

\* strlen(prefix) on a NULL prefix reads through a NULL pointer
ld_mod_entry_attrs(hp, name, parent, prefix, entry_attrs, opcode, ubPtr, srv) ==
    LET base == [Op("ld_mod_entry_attrs", hp = "null", "FAILURE") EXCEPT
                    !.nullString = AnyNull(<<name, parent, prefix>>)] IN
    IF ~check_handle(hp) THEN base
    ELSE IF ~check_string(name) THEN base
    ELSE IF ~check_string(parent) THEN base
    ELSE IF entry_attrs.null THEN Crash(base)
    ELSE IF IsNull(prefix) THEN Crash(base)
    ELSE LET attrs == fill_attributes(entry_attrs.arr, opcode)
             dn == IF Len(prefix.s) > 0
                   THEN prefix.s \o "=" \o name.s \o "," \o parent.s
                   ELSE name.s \o "," \o parent.s
         IN CallAndRelease(base, hp, [fn |-> "modify", dn |-> dn, attrs |-> attrs], ubPtr, srv)

\* the arguments the entry operations are called with: every argument
\* valid (with an empty or a non-empty prefix), or exactly one of them NULL
\* (the prefix then non-empty)
U1 == Ptr("caller", "u1")
U2 == Ptr("caller", "u2")
Parent == Ptr("caller", "ou=p")
Cn == Ptr("caller", "cn")
Prefixes == {NULL, Ptr("caller", ""), Cn}
SnOne == Attrs(<<Attr(Ptr("caller", "sn"), <<Ptr("caller", "One"), NULL>>), NullAttr>>)
AttrLists == {NullAttrs, SnOne}
Opcodes == {"LDAP_MOD_ADD", "LDAP_MOD_DELETE"}

AtMostOneNull(strs, prefix, attrs) ==
    LET n == Cardinality({i \in DOMAIN strs : IsNull(strs[i])})
             + (IF attrs.null THEN 1 ELSE 0) IN
    n = 0 \/ (n = 1 /\ prefix \in {NULL, Cn})

\* <<name, parent, prefix, entry_attrs>>
EntryArgs ==
    {a \in {U1, NULL} \X {Parent, NULL} \X Prefixes \X AttrLists :
        AtMostOneNull(<<a[1], a[2], a[3]>>, a[3], a[4])}

\* <<old_name, new_name, parent, prefix>>
RenameArgs ==
    {a \in {U1, NULL} \X {U2, NULL} \X {Parent, NULL} \X Prefixes :
        AtMostOneNull(a, a[4], SnOne)}

\* the session arguments of a call: NULL (the other arguments then valid),
\* or the pointer ld_init stored
ArgsFor(h, args) == IF h = "NULL" THEN {<<U1, Parent, Cn, SnOne>>} ELSE args

FmtOutcomes(prefix) == IF IsNull(prefix) THEN UBOutcomes ELSE {"benign"}
PtrOutcomes(h) == IF HandlePtr(h) = "uninit" THEN UBOutcomes ELSE {"benign"}

\* an entry operation returned r (or died): the per-call arena it allocated
\* and did not release stays allocated
EntryStep(r) ==
    /\ lastOp' = r
    /\ crashed' = (r.rc = "crash")
    /\ liveArenas' = liveArenas + r.arenaAllocs - r.arenaFrees
    /\ UNCHANGED <<handle, config, global_config, config_ctx, ldap_params,
                   back_link, state, inProgress, timers, removed, nextTimer, blockedInRun,
                   on_error_operation, released, srvTls, srvBind>>

LdAddEntry ==
    \E h \in HandleArgs : \E a \in ArgsFor(h, EntryArgs) :
      \E ubFmt \in FmtOutcomes(a[3]), ubPtr \in PtrOutcomes(h), srv \in SrvAnswers :
        /\ Callable(h)
        /\ EntryStep(ld_add_entry(HandlePtr(h), a[1], a[2], a[3], a[4], ubFmt, ubPtr, srv))

LdDelEntry ==
    \E h \in HandleArgs : \E a \in ArgsFor(h, {e \in EntryArgs : e[4] = SnOne}) :
      \E ubFmt \in FmtOutcomes(a[3]), ubPtr \in PtrOutcomes(h), srv \in SrvAnswers :
        /\ Callable(h)
        /\ EntryStep(ld_del_entry(HandlePtr(h), a[1], a[2], a[3], ubFmt, ubPtr, srv))

LdModEntry ==
    \E h \in HandleArgs : \E a \in ArgsFor(h, EntryArgs) :
      \E ubFmt \in FmtOutcomes(a[3]), ubPtr \in PtrOutcomes(h), srv \in SrvAnswers :
        /\ Callable(h)
        /\ EntryStep(ld_mod_entry(HandlePtr(h), a[1], a[2], a[3], a[4], ubFmt, ubPtr, srv))

LdRenameEntry ==
    \E h \in HandleArgs :
      \E a \in IF h = "NULL" THEN {<<U1, U2, Parent, Cn>>} ELSE RenameArgs :
        \E ubFmt \in FmtOutcomes(a[4]), ubPtr \in PtrOutcomes(h), srv \in SrvAnswers :
          /\ Callable(h)
          /\ EntryStep(ld_rename_entry(HandlePtr(h), a[1], a[2], a[3], a[4], ubFmt, ubPtr, srv))

LdModEntryAttrs ==
    \E h \in HandleArgs : \E a \in ArgsFor(h, EntryArgs) :
      \E opcode \in IF a[3] = Cn /\ a[1] = U1 /\ a[2] = Parent /\ a[4] = SnOne
                     THEN Opcodes ELSE {"LDAP_MOD_DELETE"} :
        \E ubPtr \in PtrOutcomes(h), srv \in SrvAnswers :
          /\ Callable(h)
          /\ EntryStep(ld_mod_entry_attrs(HandlePtr(h), a[1], a[2], a[3], a[4], opcode,
                                          ubPtr, srv))

Next ==
    \/ LdInit
    \/ LdInstallDefaultHandlers
    \/ LdInstallHandler
    \/ LdExecOnce
    \/ LdExec
    \/ RunLoop
    \/ LdInstallErrorHandler
    \/ LdFree
    \/ LdAddEntry
    \/ LdDelEntry
    \/ LdModEntry
    \/ LdRenameEntry
    \/ LdModEntryAttrs

Spec == Init /\ [][Next]_vars

----------------------------------------------------------------------------
(* A session with use_tls set, the default handler installed, pumped with  *)
(* ld_exec_once against a server that refuses TLS.                         *)

PumpInit ==
    /\ NoSession
    /\ srvTls = "refuse"
    /\ srvBind = "any"

PumpLdInit ==
    \E cfg \in {c \in Configs : c.use_tls}, rc \in {"SUCCESS", "FAILURE"} :
        ld_init("valid", cfg, TRUE, "printed", rc)

PumpInstall == ld_install_default_handlers("session")

PumpExecOnce == ld_exec_once("session")

PumpEntry ==
    \E prefix \in {Ptr("caller", ""), Cn} :
        /\ Callable("session")
        /\ EntryStep(ld_del_entry(HandlePtr("session"), U1, Parent, prefix, "benign",
                                  "benign", "FAILURE"))

PumpNext ==
    \/ PumpLdInit
    \/ PumpInstall
    \/ PumpExecOnce
    \/ PumpEntry

\* the caller keeps pumping: a round of the loop that can fire is fired
PumpSpec == PumpInit /\ [][PumpNext]_vars /\ WF_vars(PumpExecOnce)

----------------------------------------------------------------------------
(* The application builds a settings record with either constructor,       *)
(* creates the session from it, installs the default handler and pumps.    *)

ConfigLdInit ==
    \E ub \in {"crash", "printed"}, rc \in {"SUCCESS", "FAILURE"} :
        ld_init("valid", config, TRUE, ub, rc)

ConfigNext ==
    \/ LdLoadConfig
    \/ LdCreateConfig
    \/ ConfigLdInit
    \/ PumpInstall
    \/ PumpExecOnce

ConfigSpec == Init /\ [][ConfigNext]_vars

----------------------------------------------------------------------------
(* A live session is pumped to RUN and the entry operations are called on  *)
(* it with valid arguments of every shape; each call is recorded with the  *)
(* arguments it was given.                                                  *)

CallerStr(str) == Ptr("caller", str)

OpsPrefixes == {CallerStr(""), CallerStr("cn"), CallerStr("ou")}

OpsNames == {U1, CallerStr("a b")}

\* NULL-terminated attribute lists: no attribute; one attribute with no value;
\* one with one value; two attributes with two values and one
OpsAttrLists ==
    {Attrs(<<NullAttr>>),
     Attrs(<<Attr(CallerStr("sn"), <<NULL>>), NullAttr>>),
     SnOne,
     Attrs(<<Attr(CallerStr("mail"), <<CallerStr("a@x"), CallerStr("b@x"), NULL>>),
             Attr(CallerStr("sn"), <<CallerStr("One"), NULL>>), NullAttr>>)}

OpsOpcodes == {"LDAP_MOD_ADD", "LDAP_MOD_DELETE", "LDAP_MOD_REPLACE"}

OpsLdInit ==
    \E cfg \in {c \in Configs : ~c.use_tls} : ld_init("valid", cfg, TRUE, "printed", "SUCCESS")

\* the default handler is installed once
OpsInstall ==
    /\ nextTimer = 1
    /\ ld_install_default_handlers("session")

\* the call returned r, having been given the arguments in
OpsStep(r, in) ==
    /\ Callable("session")
    /\ EntryStep([r EXCEPT !.in = in])

OpsAddEntry ==
    \E name \in OpsNames, prefix \in OpsPrefixes, entry_attrs \in OpsAttrLists,
       srv \in SrvAnswers :
        OpsStep(ld_add_entry(HandlePtr("session"), name, Parent, prefix, entry_attrs,
                             "benign", "benign", srv),
                [name |-> name, parent |-> Parent, prefix |-> prefix,
                 entry_attrs |-> entry_attrs])

OpsDelEntry ==
    \E name \in OpsNames, prefix \in OpsPrefixes, srv \in SrvAnswers :
        OpsStep(ld_del_entry(HandlePtr("session"), name, Parent, prefix,
                             "benign", "benign", srv),
                [name |-> name, parent |-> Parent, prefix |-> prefix])

OpsModEntry ==
    \E name \in OpsNames, prefix \in OpsPrefixes, entry_attrs \in OpsAttrLists,
       srv \in SrvAnswers :
        OpsStep(ld_mod_entry(HandlePtr("session"), name, Parent, prefix, entry_attrs,
                             "benign", "benign", srv),
                [name |-> name, parent |-> Parent, prefix |-> prefix,
                 entry_attrs |-> entry_attrs])

OpsRenameEntry ==
    \E old_name \in OpsNames, prefix \in OpsPrefixes, srv \in SrvAnswers :
        OpsStep(ld_rename_entry(HandlePtr("session"), old_name, U2, Parent, prefix,
                                "benign", "benign", srv),
                [old_name |-> old_name, new_name |-> U2, parent |-> Parent,
                 prefix |-> prefix])

OpsModEntryAttrs ==
    \E name \in OpsNames, prefix \in OpsPrefixes, entry_attrs \in OpsAttrLists,
       opcode \in OpsOpcodes, srv \in SrvAnswers :
        OpsStep(ld_mod_entry_attrs(HandlePtr("session"), name, Parent, prefix, entry_attrs,
                                   opcode, "benign", srv),
                [name |-> name, parent |-> Parent, prefix |-> prefix,
                 entry_attrs |-> entry_attrs, opcode |-> opcode])

OpsNext ==
    \/ OpsLdInit
    \/ OpsInstall
    \/ PumpExecOnce
    \/ OpsAddEntry
    \/ OpsDelEntry
    \/ OpsModEntry
    \/ OpsRenameEntry
    \/ OpsModEntryAttrs

OpsSpec == Init /\ [][OpsNext]_vars

----------------------------------------------------------------------------
(* A session on which error callbacks are installed one after another,     *)
(* between ticks and failing entry operations.                             *)

HandlerCallbacks == {"null", "cb1", "cb2"}

HandlerInstallError ==
    \E h \in HandleArgs, callback \in HandlerCallbacks : ld_install_error_handler(h, callback)

HandlerNext ==
    \/ OpsLdInit
    \/ OpsInstall
    \/ PumpExecOnce
    \/ HandlerInstallError
    \/ PumpEntry

HandlerSpec == Init /\ [][HandlerNext]_vars

----------------------------------------------------------------------------
(* The claims *)

\* C1: an entry operation called while the connection state is not RUN
\* returns FAILURE whenever it returns; none returns SUCCESS before the
\* state machine has reached RUN.
C1_FailureBeforeRun ==
    [][lastOp'.op \in EntryOps /\ lastOp'.rc # "crash" /\ state # "RUN"
          => lastOp'.rc = "FAILURE"]_vars

C1_Witness ==
    /\ handle = "live"
    /\ state \in {"INIT", "TLS_START", "BIND"}
    /\ lastOp.op \in EntryOps
    /\ Len(lastOp.proto) = 1
    /\ lastOp.rc = "FAILURE"

\* C2: a fire of the default tick handler calls next_state exactly once;
\* after it the event is still registered iff the state is neither RUN nor
\* ERROR; an event that was removed does not fire.
C2_DefaultTick ==
    [][lastOp'.op = "connection_update"
          => /\ lastOp'.nsCalls = 1
             /\ lastOp'.timer \notin removed
             /\ (\E t \in timers : t.id = lastOp'.timer /\ t.cb = "connection_update")
             /\ (\E t \in timers' : t.id = lastOp'.timer) <=> state' \notin {"RUN", "ERROR"}
             /\ (lastOp'.timer \in removed') <=> state' \in {"RUN", "ERROR"}]_vars

C2_Witness ==
    /\ lastOp.op = "connection_update"
    /\ state = "ERROR"
    /\ lastOp.timer \in removed
    /\ \E t \in timers : t.cb = "custom"

Transitions ==
    {<<"INIT", "TLS_START">>, <<"INIT", "BIND">>, <<"TLS_START", "BIND">>,
     <<"TLS_START", "ERROR">>, <<"BIND", "RUN">>, <<"BIND", "ERROR">>}

\* C3: a call of next_state leaves the state or makes one of the six
\* transitions, INIT to TLS_START only with use_tls and INIT to BIND only
\* without; in RUN and ERROR it changes nothing; TLS_START is never reached
\* without use_tls and RUN is entered from BIND only.
C3_Transitions ==
    [][/\ lastOp'.nsCalls = 1 /\ state' # state
            => /\ <<state, state'>> \in Transitions
               /\ state \notin {"RUN", "ERROR"}
               /\ state' = "TLS_START" => config.use_tls
               /\ state = "INIT" /\ state' = "BIND" => ~config.use_tls
       /\ state' = "TLS_START" => config'.use_tls
       /\ state' = "RUN" /\ state # "RUN" => state = "BIND" /\ lastOp'.nsCalls = 1]_vars

C3_Witness ==
    /\ state = "RUN"
    /\ lastOp.nsCalls = 1
    /\ config.use_tls

\* C4: with use_tls set and a server that refuses TLS, once the default
\* handler is installed the pumped session eventually is in ERROR with no
\* tick registered, and the state is never BIND or RUN.
C4_TlsRefused ==
    /\ [](state \notin {"BIND", "RUN"})
    /\ (timers # {}) ~> (state = "ERROR" /\ timers = {})

C4_Witness ==
    /\ config.present /\ config.use_tls
    /\ back_link
    /\ state = "ERROR"
    /\ timers = {}
    /\ removed # {}
    /\ lastOp.op = "connection_update"

\* C5: when connection_configure fails, ld_init leaves a live handle with
\* its arena and contexts allocated and the connection in ERROR; from then
\* on the state stays ERROR, every entry operation that returns returns
\* FAILURE, and ld_free releases the session as usual.
C5_ConfigureFailure ==
    [][/\ lastOp'.op = "ld_init"
          /\ lastOp'.proto = <<[fn |-> "connection_configure", rc |-> "FAILURE"]>>
            => /\ handle' = "live"
               /\ ~crashed'
               /\ state' = "ERROR"
               /\ global_config'.present /\ config_ctx'.present /\ ldap_params'.present
       /\ handle = "live" /\ ~back_link
            => /\ state = "ERROR"
               /\ lastOp'.op \in EntryOps /\ lastOp'.rc # "crash" => lastOp'.rc = "FAILURE"
               /\ lastOp'.op = "ld_free" /\ ~lastOp'.nullSession
                    => /\ ~crashed'
                       /\ handle' = "freed"
                       /\ released' = <<"connection_close", "talloc_free", "free">>]_vars

C5_Witness ==
    /\ handle = "live"
    /\ ~back_link
    /\ state = "ERROR"
    /\ lastOp.op \in EntryOps
    /\ Len(lastOp.proto) = 1
    /\ lastOp.rc = "FAILURE"

\* C6: after ld_init no string held by the session points into memory owned
\* by the caller's settings record.
C6_SessionStringsOwned == \A p \in SessionStrings : p.mem # "caller"

\* C7: ld_free on a live session, whatever the connection state, closes the
\* connection, then releases the arena, then the handle, once each;
\* ld_free(NULL) releases nothing.
C7_FreeOrder ==
    [][lastOp'.op = "ld_free"
          => /\ lastOp'.nullSession => released' = released
             /\ handle = "live" /\ ~lastOp'.nullSession
                  => /\ released' = released \o <<"connection_close", "talloc_free", "free">>
                     /\ released = <<>>
                     /\ handle' = "freed"
                     /\ ~crashed']_vars

C7_Witness ==
    /\ lastOp.op = "ld_free"
    /\ released = <<"connection_close", "talloc_free", "free">>
    /\ Len(lastOp.proto) = 1
    /\ lastOp.proto[1].was = "TLS_START"

\* C8: an entry operation that returns leaves as many per-call arenas
\* allocated as there were before the call, on the validation-failure, the
\* protocol-failure and the protocol-success path.
C8_ArenaReleased ==
    [][lastOp'.op \in EntryOps /\ lastOp'.rc # "crash"
          => /\ liveArenas' = liveArenas
             /\ lastOp'.arenaFrees = lastOp'.arenaAllocs]_vars

C8_Witness ==
    /\ lastOp.op \in EntryOps
    /\ state = "RUN"
    /\ lastOp.rc = "FAILURE"
    /\ lastOp.arenaAllocs = 1
    /\ liveArenas = 0

\* C9: a public function called with a NULL session returns without
\* crashing, calls neither the event loop nor the protocol library and
\* changes no state; an entry operation returns FAILURE.
C9_NullSession ==
    [][lastOp'.nullSession
          => /\ lastOp'.rc # "crash"
             /\ UNCHANGED sessionVars
             /\ lastOp'.loopCalls = 0 /\ lastOp'.nsCalls = 0 /\ lastOp'.proto = <<>>
             /\ lastOp'.op \in EntryOps => lastOp'.rc = "FAILURE"]_vars

\* C10: an entry operation given a NULL name, old_name, new_name, parent or
\* prefix returns FAILURE without crashing, allocates no per-call arena and
\* does not invoke the protocol operation.
C10_NullString ==
    [][lastOp'.op \in EntryOps /\ lastOp'.nullString
          => /\ lastOp'.rc = "FAILURE"
             /\ lastOp'.arenaAllocs = 0
             /\ lastOp'.proto = <<>>]_vars

\* C11: the connection state changes only in a tick callback the event
\* loop fires for a registered event (ld_init primes it and ld_free ends the
\* connection); the installers and the entry operations never change it.
\* While no tick handler was ever installed the state stays as ld_init left
\* it through every ld_exec_once, and every entry operation that returns
\* returns FAILURE.
C11_StateFrame ==
    [][/\ state' # state
            => /\ lastOp'.op \in {"ld_init", "connection_update", "custom_callback", "ld_free"}
               /\ lastOp'.op = "ld_init" => state = "NONE" /\ state' \in {"INIT", "ERROR"}
               /\ lastOp'.op = "ld_free" => state' = "NONE"
               /\ lastOp'.op \in {"connection_update", "custom_callback"}
                    => /\ lastOp'.proto[1].fn \in {"ld_exec_once", "ld_exec"}
                       /\ \E t \in timers : t.id = lastOp'.timer
       /\ handle = "live" /\ nextTimer = 1
            => /\ state \in {"INIT", "ERROR"}
               /\ lastOp'.op # "ld_free" => state' = state
               /\ lastOp'.op \in EntryOps /\ lastOp'.rc # "crash" => lastOp'.rc = "FAILURE"]_vars

C11_Witness ==
    /\ handle = "live"
    /\ nextTimer = 1
    /\ state = "INIT"
    /\ lastOp.op = "ld_exec_once"
    /\ lastOp.loopCalls = 1

ProtoOf ==
    [ld_add_entry |-> "add", ld_del_entry |-> "ld_delete", ld_mod_entry |-> "modify",
     ld_rename_entry |-> "ld_rename", ld_mod_entry_attrs |-> "modify"]

\* C12: an entry operation that returns has invoked at most one protocol
\* operation, the one of the call itself, and that operation has completed
\* when the call returns: none is outstanding between two calls, so the
\* protocol operations run in the order of the calls.
C12_CallOrder ==
    [][lastOp'.op \in EntryOps /\ lastOp'.rc # "crash"
          => /\ lastOp.pending = 0
             /\ lastOp'.pending = 0
             /\ Len(lastOp'.proto) <= 1
             /\ Len(lastOp'.proto) = 1 => lastOp'.proto[1].fn = ProtoOf[lastOp'.op]
             /\ handle = "live" /\ ~lastOp'.nullSession /\ ~lastOp'.nullString
                  => Len(lastOp'.proto) = 1]_vars

C12_Witness ==
    /\ handle = "live"
    /\ state = "RUN"
    /\ lastOp.op = "ld_rename_entry"
    /\ lastOp.rc = "SUCCESS"
    /\ Len(lastOp.proto) = 1
    /\ lastOp.pending = 0

C14_LoaderInvariant ==
    lastOp.op = "ld_load_config"
        => /\ config.present => config.host.s # "" /\ config.base_dn.s # ""
           /\ IsNull(lastOp.in.host) \/ IsNull(lastOp.in.base_dn) => ~config.present

\* C15: after ld_init the configuration context has bind kind SIMPLE iff
\* simple_bind and INTERACTIVE otherwise, SASL options iff use_sasl with
\* mechanism SIMPLE under simple_bind and GSSAPI otherwise, copies of the
\* three certificate paths iff use_tls (empty paths included), and
\* chase_referrals false.
C15_DerivedContext ==
    handle = "live"
        => /\ config_ctx.bind_type
                = (IF config.simple_bind THEN "BIND_TYPE_SIMPLE" ELSE "BIND_TYPE_INTERACTIVE")
           /\ config_ctx.sasl_options.present = config.use_sasl
           /\ config.use_sasl
                => config_ctx.sasl_options.mechanism
                     = (IF config.simple_bind THEN LDAP_SASL_SIMPLE ELSE Ptr("static", "GSSAPI"))
           /\ config.use_tls
                => /\ config_ctx.tls_ca_cert_file = Ptr("arena", config.cacertfile.s)
                   /\ config_ctx.tls_cert_file = Ptr("arena", config.certfile.s)
                   /\ config_ctx.tls_key_file = Ptr("arena", config.keyfile.s)
           /\ ~config.use_tls
                => /\ IsNull(config_ctx.tls_ca_cert_file)
                   /\ IsNull(config_ctx.tls_cert_file)
                   /\ IsNull(config_ctx.tls_key_file)
           /\ ~config_ctx.chase_referrals

C15_Witness ==
    /\ handle = "live"
    /\ lastOp.op = "ld_init"
    /\ config.use_tls /\ config.use_sasl /\ config.simple_bind
    /\ config.cacertfile.s = "" /\ config.certfile.s = "" /\ config.keyfile.s = ""
    /\ config_ctx.tls_ca_cert_file = Ptr("arena", "")

C20_HostComposition ==
    lastOp.op \in {"ld_load_config", "ld_create_config"} /\ lastOp.rc # "crash" /\ config.present
        => LET hostname == lastOp.in.host.s
               port == IF lastOp.op = "ld_create_config" THEN lastOp.in.port
                       ELSE IF lastOp.in.port.set THEN lastOp.in.port.v ELSE 0
           IN config.host.s = (IF port <= 0 THEN hostname
                               ELSE hostname \o ":" \o ToString(port))

C20_Witness ==
    /\ lastOp.op = "ld_create_config"
    /\ lastOp.in.port = 636
    /\ config.present
    /\ config.host.s = "dc1:636"

\* C17: ld_add_entry, ld_del_entry and ld_mod_entry hand the protocol
\* operation the DN prefix "=" name "," parent for every prefix, the empty
\* one included; ld_mod_entry_attrs hands it the same DN when the prefix is
\* not empty and name "," parent when it is.
C17_DnComposition ==
    lastOp.op \in EntryOps \ {"ld_rename_entry"} /\ Len(lastOp.proto) = 1
        => LET a == lastOp.in
               full == a.prefix.s \o "=" \o a.name.s \o "," \o a.parent.s
               bare == a.name.s \o "," \o a.parent.s
           IN lastOp.proto[1].dn
                = (IF lastOp.op = "ld_mod_entry_attrs" /\ a.prefix.s = "" THEN bare ELSE full)

C17_Witness ==
    /\ lastOp.op = "ld_mod_entry_attrs"
    /\ lastOp.in.prefix.s = ""
    /\ Len(lastOp.proto) = 1
    /\ lastOp.proto[1].dn = "a b,ou=p"
    /\ lastOp.rc = "SUCCESS"

\* the opcode an operation puts on every entry of the list it passes on
OpcodeOf(r) ==
    CASE r.op = "ld_add_entry" -> "LDAP_MOD_ADD"
      [] r.op = "ld_mod_entry" -> "LDAP_MOD_REPLACE"
      [] r.op = "ld_mod_entry_attrs" -> r.in.opcode

\* C18: the attribute list ld_add_entry, ld_mod_entry and ld_mod_entry_attrs
\* hand the protocol operation has as many entries as the caller's list, in
\* the same order, each with the caller's name and values in order, a NULL
\* after the last value and after the last entry, and on every entry the
\* opcode ADD, REPLACE or the caller's, by operation.
C18_AttributeList ==
    lastOp.op \in {"ld_add_entry", "ld_mod_entry", "ld_mod_entry_attrs"} /\ Len(lastOp.proto) = 1
        => LET given == lastOp.in.entry_attrs.arr
               passed == lastOp.proto[1].attrs
               n == Len(given)
           IN /\ Len(passed) = n
              /\ passed[n].null
              /\ \A i \in 1..(n - 1) :
                    LET vals == given[i].values
                        k == Len(vals) IN
                    /\ ~passed[i].null
                    /\ passed[i].mod_op = OpcodeOf(lastOp)
                    /\ ~IsNull(passed[i].mod_type)
                    /\ passed[i].mod_type.s = given[i].name.s
                    /\ Len(passed[i].mod_values) = k
                    /\ IsNull(passed[i].mod_values[k])
                    /\ \A j \in 1..(k - 1) :
                          /\ ~IsNull(passed[i].mod_values[j])
                          /\ passed[i].mod_values[j].s = vals[j].s

C18_Witness ==
    /\ lastOp.op = "ld_mod_entry_attrs"
    /\ lastOp.in.opcode = "LDAP_MOD_DELETE"
    /\ Len(lastOp.proto) = 1
    /\ Len(lastOp.proto[1].attrs) = 3
    /\ Len(lastOp.proto[1].attrs[1].mod_values) = 3
    /\ lastOp.proto[1].attrs[1].mod_values[2].s = "b@x"

\* C19: ld_rename_entry makes one protocol rename, with the old DN
\* prefix "=" old_name "," parent, the new RDN prefix "=" new_name, the
\* parent as new parent and delete-old-RDN set, and returns its result.
C19_Rename ==
    lastOp.op = "ld_rename_entry" /\ lastOp.rc # "crash"
        => LET a == lastOp.in IN
           /\ lastOp.proto
                = <<[fn |-> "ld_rename",
                     old_dn |-> a.prefix.s \o "=" \o a.old_name.s \o "," \o a.parent.s,
                     new_dn |-> a.prefix.s \o "=" \o a.new_name.s,
                     new_parent |-> a.parent.s,
                     delete_original |-> TRUE]>>
           /\ lastOp.rc = lastOp.protoRc

C19_Witness ==
    /\ lastOp.op = "ld_rename_entry"
    /\ lastOp.rc = "SUCCESS"
    /\ Len(lastOp.proto) = 1
    /\ lastOp.proto[1].old_dn = "cn=u1,ou=p"
    /\ lastOp.proto[1].new_dn = "cn=u2"

\* C21: once ld_init has returned, the handle it stored is NULL or a fully
\* initialised session, so no later call works on a handle whose fields
\* were never set.
C21_HandleInitialised == ~crashed => handle # "uninit"

\* C22: on a live session ld_install_error_handler with a NULL callback
\* leaves the stored error callback as it was, and with a non-NULL callback
\* stores exactly that callback; in both cases nothing else in the session
\* changes.
C22_ErrorHandlerFrame ==
    [][lastOp'.op = "ld_install_error_handler" /\ handle = "live" /\ ~lastOp'.nullSession
          => /\ on_error_operation'
                  = (IF lastOp'.cb = "null" THEN on_error_operation ELSE lastOp'.cb)
             /\ UNCHANGED <<handle, crashed, config, global_config, config_ctx, ldap_params,
                            back_link, state, inProgress, timers, removed, nextTimer,
                            blockedInRun, liveArenas, released>>]_vars

C22_Witness ==
    /\ handle = "live"
    /\ lastOp.op = "ld_install_error_handler"
    /\ lastOp.cb = "null"
    /\ on_error_operation = "cb2"
    /\ state = "RUN"

\* C23: when ld_load_config returns NULL it leaves nothing allocated in the
\* caller's talloc context.
C23_NoLeakOnNull ==
    lastOp.op = "ld_load_config" /\ ~config.present => lastOp.scope = <<>>

====
